---- MODULE Spec2Model ----
(***************************************************************************)
(* Model of the game-state service of HarvestHope                          *)
(* (src/backend/gamestate/gamestate.py): the save store kept in the        *)
(* DynamoDB table harvest-hope-game-states, keyed by (playerId, saveSlot), *)
(* and the operations save_game_state, load_game_state, get_save_slots,    *)
(* get_backup_slots and delete_save_slot.                                  *)
(*                                                                         *)
(* Strings that the code builds or orders (slot ids, farm names) are       *)
(* sequences of character codes, so that formatting and sorting are        *)
(* computed and not assumed.  Other strings are TLA+ strings.  A JSON      *)
(* number is a record [t, v]: t = "int" for a number parsed from the       *)
(* request body, t = "Decimal" for a number read back from the table.      *)
(*                                                                         *)
(* The variables store, now, lastOp, changes and corruptions carry the     *)
(* runs in which a request is served in one step; calls carries the runs   *)
(* in which requests are served concurrently, one call of the table per    *)
(* step.                                                                   *)
(***************************************************************************)
EXTENDS Integers, Sequences, FiniteSets, TLC

VARIABLES store, now, lastOp, changes, corruptions, calls

vars == <<store, now, lastOp, changes, corruptions, calls>>

---------------------------------------------------------------------------
(* Bounds of the model *)

MaxChanges == 2

MaxClock == 2

MaxCorrupt == 1

---------------------------------------------------------------------------
(* Program constants *)

MinMoney == -1000000

MaxMoney == 100000000

MinDay == 1

MaxDay == 120

TtlDays == 365

RequiredFields ==
    {"player", "farm", "economics", "season", "weather", "npcs", "events",
     "stats", "progress"}

---------------------------------------------------------------------------
(* Strings as sequences of character codes *)

EmptyStr == << >>

\* "_backup_"
BackupInfix == <<95, 98, 97, 99, 107, 117, 112, 95>>

\* "Farm "
FarmPrefix == <<70, 97, 114, 109, 32>>

\* "slot1", "slot2", ...
SlotName(n) == <<115, 108, 111, 116, 48 + n>>

\* str(n) for n >= 0, in decimal
RECURSIVE IntToStr(_)
IntToStr(n) ==
    IF n < 10 THEN <<48 + n>> ELSE IntToStr(n \div 10) \o <<48 + (n % 10)>>

\* a < b for Python strings (code point order, a proper prefix is smaller)
RECURSIVE StrLess(_, _)
StrLess(a, b) ==
    IF b = << >> THEN FALSE
    ELSE IF a = << >> THEN TRUE
    ELSE IF Head(a) # Head(b) THEN Head(a) < Head(b)
    ELSE StrLess(Tail(a), Tail(b))

---------------------------------------------------------------------------
(* JSON values, numbers and the table's number type *)

JsonInt(n) == [t |-> "int", v |-> n]

Decimal(n) == [t |-> "Decimal", v |-> n]

\* a JSON value that is not an object
Scalar(x) == [scalar |-> x]

IsDict(v) == "scalar" \notin DOMAIN v

EmptyDict == [k \in {} |-> 0]

NumericFarmAttrs == {"money", "day"}

\* boto3 stores a Python int as a DynamoDB number and hands every number
\* back as a Decimal; the code serialises a Decimal as a float.
FarmStored(farm) ==
    IF ~IsDict(farm) THEN farm
    ELSE [a \in DOMAIN farm |->
            IF a \in NumericFarmAttrs THEN Decimal(farm[a].v) ELSE farm[a]]

GameStateStored(gs) ==
    [k \in DOMAIN gs |-> IF k = "farm" THEN FarmStored(gs[k]) ELSE gs[k]]

\* decimal_default: a Decimal is dumped as float(obj), an int as itself
decimal_default(x) ==
    IF x.t = "Decimal" THEN [text |-> "float", v |-> x.v]
    ELSE [text |-> "int", v |-> x.v]

\* json.dumps(game_state, sort_keys=True, default=decimal_default): the
\* canonical text, independent of the order of the keys
JsonFarm(farm) ==
    IF ~IsDict(farm) THEN farm
    ELSE [a \in DOMAIN farm |->
            IF a \in NumericFarmAttrs THEN decimal_default(farm[a]) ELSE farm[a]]

json_dumps(gs) ==
    [k \in DOMAIN gs |-> IF k = "farm" THEN JsonFarm(gs[k]) ELSE gs[k]]

\* hashlib.md5(...).hexdigest(): a non-empty string, one per text
calculate_checksum(gs) == <<json_dumps(gs)>>

---------------------------------------------------------------------------
(* validate_game_state *)

\* the presence loop stops one field short
validate_skips_last_field(gs) ==
    /\ \A f \in RequiredFields \ {"progress"} : f \in DOMAIN gs
    /\ IsDict(gs.player) /\ "id" \in DOMAIN gs.player
    /\ IsDict(gs.farm) /\ "money" \in DOMAIN gs.farm /\ "day" \in DOMAIN gs.farm
    /\ ~(gs.farm.money.v < MinMoney \/ gs.farm.money.v > MaxMoney)
    /\ ~(gs.farm.day.v < MinDay \/ gs.farm.day.v > MaxDay)

\* the upper day bound is exclusive
validate_day_off_by_one(gs) ==
    /\ \A f \in RequiredFields : f \in DOMAIN gs
    /\ IsDict(gs.player) /\ "id" \in DOMAIN gs.player
    /\ IsDict(gs.farm) /\ "money" \in DOMAIN gs.farm /\ "day" \in DOMAIN gs.farm
    /\ ~(gs.farm.money.v < MinMoney \/ gs.farm.money.v > MaxMoney)
    /\ ~(gs.farm.day.v < MinDay \/ gs.farm.day.v >= MaxDay)

\* the lower money bound is not checked
validate_no_lower_money_bound(gs) ==
    /\ \A f \in RequiredFields : f \in DOMAIN gs
    /\ IsDict(gs.player) /\ "id" \in DOMAIN gs.player
    /\ IsDict(gs.farm) /\ "money" \in DOMAIN gs.farm /\ "day" \in DOMAIN gs.farm
    /\ ~(gs.farm.money.v > MaxMoney)
    /\ ~(gs.farm.day.v < MinDay \/ gs.farm.day.v > MaxDay)

\* the player section is not looked into
validate_no_player_id(gs) ==
    /\ \A f \in RequiredFields : f \in DOMAIN gs
    /\ IsDict(gs.farm) /\ "money" \in DOMAIN gs.farm /\ "day" \in DOMAIN gs.farm
    /\ ~(gs.farm.money.v < MinMoney \/ gs.farm.money.v > MaxMoney)
    /\ ~(gs.farm.day.v < MinDay \/ gs.farm.day.v > MaxDay)

validate_game_state(gs) ==
    /\ \A f \in RequiredFields : f \in DOMAIN gs
    /\ IsDict(gs.player) /\ "id" \in DOMAIN gs.player
    /\ IsDict(gs.farm) /\ "money" \in DOMAIN gs.farm /\ "day" \in DOMAIN gs.farm
    /\ ~(gs.farm.money.v < MinMoney \/ gs.farm.money.v > MaxMoney)
    /\ ~(gs.farm.day.v < MinDay \/ gs.farm.day.v > MaxDay)

---------------------------------------------------------------------------
(* The clock: now counts half seconds *)

\* int(time.time())
time_time(t) == t \div 2

\* datetime.utcnow().isoformat(): seconds and the fraction of the second
utcnow_isoformat(t) == <<t \div 2, t % 2>>

\* a < b for two ISO timestamps
TsLess(a, b) == a[1] < b[1] \/ (a[1] = b[1] /\ a[2] < b[2])

---------------------------------------------------------------------------
(* The table *)

Key(p, s) == <<p, s>>

ItemGet(item, attr, default) ==
    IF attr \in DOMAIN item THEN item[attr] ELSE default

\* the lookup forgets the sort key and answers with the player's first entry
get_item_ignores_slot(st, p, s) ==
    IF \E k \in DOMAIN st : k[1] = p
    THEN [Item |-> st[CHOOSE k \in DOMAIN st : k[1] = p]]
    ELSE EmptyDict

\* get_item(Key={'playerId': p, 'saveSlot': s}): the response holds 'Item'
\* only when the key exists
get_item(st, p, s) ==
    IF Key(p, s) \in DOMAIN st THEN [Item |-> st[Key(p, s)]] ELSE EmptyDict

\* the write keeps what the new item does not set: the attributes of the
\* entry it replaces and the sections of its snapshot
put_item_merges(st, item) ==
    LET key == <<item.playerId, item.saveSlot>>
        merged == IF key \in DOMAIN st
                  THEN [item EXCEPT !.gameState = item.gameState
                                                  @@ st[key].gameState]
                       @@ st[key]
                  ELSE item
    IN [k \in DOMAIN st \cup {key} |-> IF k = key THEN merged ELSE st[k]]

\* put_item: upsert of the whole item under (playerId, saveSlot)
put_item(st, item) ==
    [k \in DOMAIN st \cup {Key(item.playerId, item.saveSlot)} |->
        IF k = Key(item.playerId, item.saveSlot) THEN item ELSE st[k]]

\* the delete takes the backups of the slot with it
delete_item_cascades(st, p, s) ==
    [k \in {kk \in DOMAIN st :
                /\ kk # <<p, s>>
                /\ ~(/\ kk[1] = p
                     /\ "originalSlot" \in DOMAIN st[kk]
                     /\ st[kk].originalSlot = s)} |-> st[k]]

\* delete_item: no error when the key is absent
delete_item(st, p, s) == [k \in DOMAIN st \ {Key(p, s)} |-> st[k]]

\* the slot ids of a player in ascending order of the sort key
RECURSIVE SortSlots(_)
SortSlots(S) ==
    IF S = {} THEN << >>
    ELSE LET m == CHOOSE x \in S : \A y \in S \ {x} : StrLess(x, y)
         IN <<m>> \o SortSlots(S \ {m})

\* query(KeyConditionExpression = Key('playerId').eq(p))
query(st, p) ==
    LET slots == SortSlots({k[2] : k \in {kk \in DOMAIN st : kk[1] = p}})
    IN [i \in 1..Len(slots) |-> st[Key(p, slots[i])]]

---------------------------------------------------------------------------
(* get_save_slots and get_backup_slots *)

SlotSummary(item) ==
    [saveSlot |-> item.saveSlot,
     lastSaved |-> ItemGet(item, "lastSaved", EmptyStr),
     farmName |-> ItemGet(item, "farmName", FarmPrefix \o item.saveSlot),
     season |-> ItemGet(item, "season", "Kharif"),
     day |-> ItemGet(item, "day", JsonInt(1)),
     money |-> ItemGet(item, "money", JsonInt(0)),
     checksum |-> ItemGet(item, "checksum", EmptyStr),
     deviceId |-> ItemGet(item, "deviceId", ""),
     version |-> ItemGet(item, "version", "1.0.0")]

\* sorted(save_slots, key=lambda x: x['saveSlot']): stable, ascending
RECURSIVE SortBySaveSlot(_)
SortBySaveSlot(seq) ==
    IF Len(seq) = 0 THEN << >>
    ELSE LET x == Head(seq)
             rest == SortBySaveSlot(Tail(seq))
         IN SelectSeq(rest, LAMBDA y : StrLess(y.saveSlot, x.saveSlot))
            \o <<x>>
            \o SelectSeq(rest, LAMBDA y : ~StrLess(y.saveSlot, x.saveSlot))

\* every item the query returns is summarised: nothing is filtered out;
\* a failed query is caught and gives the empty list
get_save_slots(st, p, faults) ==
    IF "query" \in faults THEN << >>
    ELSE LET items == query(st, p)
         IN SortBySaveSlot([i \in 1..Len(items) |-> SlotSummary(items[i])])

BackupSummary(item) ==
    [saveSlot |-> item.saveSlot,
     lastSaved |-> ItemGet(item, "lastSaved", EmptyStr),
     backupReason |-> ItemGet(item, "backupReason", ""),
     deviceId |-> ItemGet(item, "deviceId", "")]

\* the filter leaves out the original slot: every backup of the player
IsBackupOf_any_slot(item, original_slot) ==
    "isBackup" \in DOMAIN item /\ item.isBackup = TRUE

\* FilterExpression: originalSlot = original_slot AND isBackup = True
IsBackupOf(item, original_slot) ==
    /\ "originalSlot" \in DOMAIN item /\ item.originalSlot = original_slot
    /\ "isBackup" \in DOMAIN item /\ item.isBackup = TRUE

\* sorted(backups, key=lambda x: x['lastSaved'], reverse=True): stable
RECURSIVE SortByLastSavedDesc(_)
SortByLastSavedDesc(seq) ==
    IF Len(seq) = 0 THEN << >>
    ELSE LET x == Head(seq)
             rest == SortByLastSavedDesc(Tail(seq))
         IN SelectSeq(rest, LAMBDA y : TsLess(x.lastSaved, y.lastSaved))
            \o <<x>>
            \o SelectSeq(rest, LAMBDA y : ~TsLess(x.lastSaved, y.lastSaved))

\* the query of the backups never fails
get_backup_slots_unfailing(st, p, original_slot, faults) ==
    LET items == SelectSeq(query(st, p),
                           LAMBDA it : IsBackupOf(it, original_slot))
    IN SortByLastSavedDesc([i \in 1..Len(items) |-> BackupSummary(items[i])])

\* a failed query is caught and gives the empty list
get_backup_slots(st, p, original_slot, faults) ==
    IF "query" \in faults THEN << >>
    ELSE LET items == SelectSeq(query(st, p),
                                LAMBDA it : IsBackupOf(it, original_slot))
         IN SortByLastSavedDesc(
                [i \in 1..Len(items) |-> BackupSummary(items[i])])

---------------------------------------------------------------------------
(* save_game_state *)

NoSlot == << >>

\* the item as the table keeps it: numbers as the table's number type
save_data(p, s, gs, d, checksum, timestamp, t) ==
    [playerId |-> p,
     saveSlot |-> s,
     gameState |-> GameStateStored(gs),
     checksum |-> checksum,
     lastSaved |-> timestamp,
     deviceId |-> d,
     version |-> "1.0.0",
     farmName |-> ItemGet(gs.farm, "name", FarmPrefix \o s),
     season |-> ItemGet(gs.season, "current", "Kharif"),
     day |-> Decimal(ItemGet(gs.farm, "day", JsonInt(1)).v),
     money |-> Decimal(ItemGet(gs.farm, "money", JsonInt(0)).v),
     ttl |-> Decimal(time_time(t) + TtlDays * 86400)]

\* the check that the recorded device id is non-empty is dropped
device_conflict_any_other(existing_device, d) == existing_device # d

\* if existing_device and existing_device != device_id
device_conflict(existing_device, d) ==
    existing_device # "" /\ existing_device # d

\* the second is left out of the slot id of the backup
backup_slot_no_time(s, t) == s \o BackupInfix

\* f"{save_slot}_backup_{int(time.time())}"
backup_slot(s, t) == s \o BackupInfix \o IntToStr(time_time(t))

\* the copy keeps the slot id of the entry it copies
backup_data_same_slot(existing_item, s, t) ==
    [isBackup |-> TRUE,
     originalSlot |-> s,
     backupReason |-> "device_conflict"] @@ existing_item

\* existing_item.copy() with the four backup attributes set
backup_data(existing_item, s, t) ==
    [saveSlot |-> backup_slot(s, t),
     isBackup |-> TRUE,
     originalSlot |-> s,
     backupReason |-> "device_conflict"] @@ existing_item

\* the try block around the conflict check: any failure in it is swallowed.
\* Gives the table after it and the slot id of the backup written, if any.
conflict_check(st, t, p, s, d, faults) ==
    IF "get" \in faults \/ "Item" \notin DOMAIN get_item(st, p, s)
    THEN [store |-> st, backupSlot |-> NoSlot]
    ELSE LET existing_item == get_item(st, p, s).Item
             existing_device == ItemGet(existing_item, "deviceId", "")
         IN IF device_conflict(existing_device, d) /\ "backup_put" \notin faults
            THEN [store |-> put_item(st, backup_data(existing_item, s, t)),
                  backupSlot |-> backup_slot(s, t)]
            ELSE [store |-> st, backupSlot |-> NoSlot]

SaveValidationFailed ==
    [success |-> FALSE, message |-> "Invalid game state data",
     error |-> "VALIDATION_FAILED"]

SaveFailed ==
    [success |-> FALSE, message |-> "Failed to save game state",
     error |-> "SAVE_FAILED"]

SaveSucceeded(timestamp, checksum, s) ==
    [success |-> TRUE, message |-> "Game state saved successfully",
     timestamp |-> timestamp, checksum |-> checksum, saveSlot |-> s]

\* no failure is caught before the outer handler
save_escaping_all(faults) == faults

\* the failures of the storage calls that reach the outer except clause:
\* those of get_item and of the backup's put_item are caught by the inner
\* one, the failure of the primary put_item is not
save_escaping(faults) == faults \cap {"put"}

\* a save that fails leaves the table as it found it
save_game_state_atomic(st, t, p, s, gs, d, faults) ==
    IF ~validate_game_state(gs)
    THEN [store |-> st, result |-> SaveValidationFailed, backupSlot |-> NoSlot]
    ELSE LET checksum == calculate_checksum(gs)
             timestamp == utcnow_isoformat(t)
             data == save_data(p, s, gs, d, checksum, timestamp, t)
             checked == conflict_check(st, t, p, s, d, faults)
         IN IF save_escaping(faults) # {}
            THEN [store |-> st, result |-> SaveFailed,
                  backupSlot |-> checked.backupSlot]
            ELSE [store |-> put_item(checked.store, data),
                  result |-> SaveSucceeded(timestamp, checksum, s),
                  backupSlot |-> checked.backupSlot]

\* the table, the result and the backup slot written by one call
save_game_state(st, t, p, s, gs, d, faults) ==
    IF ~validate_game_state(gs)
    THEN [store |-> st, result |-> SaveValidationFailed, backupSlot |-> NoSlot]
    ELSE LET checksum == calculate_checksum(gs)
             timestamp == utcnow_isoformat(t)
             data == save_data(p, s, gs, d, checksum, timestamp, t)
             checked == conflict_check(st, t, p, s, d, faults)
         IN IF save_escaping(faults) # {}
            THEN [store |-> checked.store, result |-> SaveFailed,
                  backupSlot |-> checked.backupSlot]
            ELSE [store |-> put_item(checked.store, data),
                  result |-> SaveSucceeded(timestamp, checksum, s),
                  backupSlot |-> checked.backupSlot]

---------------------------------------------------------------------------
(* load_game_state *)

LoadNotFound ==
    [success |-> FALSE, message |-> "No saved game found",
     error |-> "NOT_FOUND"]

LoadFailed ==
    [success |-> FALSE, message |-> "Failed to load game state",
     error |-> "LOAD_FAILED"]

LoadValidationFailed ==
    [success |-> FALSE, message |-> "Save data validation failed",
     error |-> "VALIDATION_FAILED"]

CorruptionDetected(backups) ==
    [success |-> FALSE, message |-> "Save data corrupted, backups available",
     error |-> "CORRUPTION_DETECTED", backups |-> backups]

CorruptionNoBackup ==
    [success |-> FALSE,
     message |-> "Save data corrupted and no backups available",
     error |-> "CORRUPTION_NO_BACKUP"]

\* if stored_checksum and stored_checksum != calculated_checksum
checksum_mismatch(stored_checksum, calculated_checksum) ==
    stored_checksum # EmptyStr /\ stored_checksum # calculated_checksum

load_game_state(st, p, s, faults) ==
    IF "get" \in faults THEN LoadFailed
    ELSE IF "Item" \notin DOMAIN get_item(st, p, s) THEN LoadNotFound
    ELSE LET item == get_item(st, p, s).Item
             game_state == ItemGet(item, "gameState", EmptyDict)
             stored_checksum == ItemGet(item, "checksum", EmptyStr)
             calculated_checksum == calculate_checksum(game_state)
         IN IF checksum_mismatch(stored_checksum, calculated_checksum)
            THEN LET backups == get_backup_slots(st, p, s, faults)
                 IN IF Len(backups) > 0 THEN CorruptionDetected(backups)
                    ELSE CorruptionNoBackup
            ELSE IF ~validate_game_state(game_state)
            THEN LoadValidationFailed
            ELSE [success |-> TRUE,
                  gameState |-> game_state,
                  lastSaved |-> ItemGet(item, "lastSaved", EmptyStr),
                  deviceId |-> ItemGet(item, "deviceId", ""),
                  checksum |-> calculated_checksum,
                  saveSlot |-> s]

---------------------------------------------------------------------------
(* delete_save_slot *)

DeleteSucceeded ==
    [success |-> TRUE, message |-> "Save slot deleted successfully"]

\* the failure result carries no error code
DeleteFailed == [success |-> FALSE, message |-> "Failed to delete save slot"]

\* deleting a key that does not exist is reported as a failure
delete_save_slot_must_exist(st, p, s, faults) ==
    IF "delete" \in faults \/ Key(p, s) \notin DOMAIN st
    THEN [store |-> st, result |-> DeleteFailed]
    ELSE [store |-> delete_item(st, p, s), result |-> DeleteSucceeded]

delete_save_slot(st, p, s, faults) ==
    IF "delete" \in faults
    THEN [store |-> st, result |-> DeleteFailed]
    ELSE [store |-> delete_item(st, p, s), result |-> DeleteSucceeded]

---------------------------------------------------------------------------
(* handler: the response of a request *)

\* status_code = 200 if response_body.get('success', True) else 400; the
\* operations catch every storage failure themselves, so the handler's own
\* except clause and its 500 are not reached through them
status_code(response_body) ==
    IF ItemGet(response_body, "success", TRUE) THEN 200 ELSE 400

\* the body of the answer to GET ?action=list
list_response(save_slots) == [success |-> TRUE, saveSlots |-> save_slots]

---------------------------------------------------------------------------
(* Inputs *)

Players == {"p1", "p2"}

Devices == {"", "A", "B"}

NoFaults == {}

Snapshot(money, day) ==
    [player |-> [id |-> "farmer"],
     farm |-> [money |-> JsonInt(money), day |-> JsonInt(day)],
     economics |-> EmptyDict,
     season |-> [current |-> "Rabi"],
     weather |-> EmptyDict,
     npcs |-> EmptyDict,
     events |-> EmptyDict,
     stats |-> EmptyDict,
     progress |-> EmptyDict]

Without(gs, field) == [k \in DOMAIN gs \ {field} |-> gs[k]]

SnapA == Snapshot(MinMoney, MinDay)

SnapB == Snapshot(MaxMoney, MaxDay)

GoodSnapshots == {SnapA, SnapB}

\* a snapshot with a farm name and a section of its own
SnapNamed ==
    [inventory |-> EmptyDict]
    @@ [Snapshot(500, 60) EXCEPT
           !.farm = [money |-> JsonInt(500), day |-> JsonInt(60),
                     name |-> <<71, 114, 101, 101, 110>>]]

\* The keys the clients use: two slots of player p1, one slot of player p2.
ClientKeys ==
    {<<"p1", SlotName(1)>>, <<"p1", SlotName(2)>>, <<"p2", SlotName(1)>>}

\* The valid save requests <<player, slot, device, snapshot>> of the
\* store-level runs.  Device A saves SnapA and device B saves SnapB; slot 1
\* of player p1 is also saved with SnapA from a client that sends no device
\* id and with SnapB from device A; slot 2 of player p1 has one writer.
GoodRequests ==
    {<<"p1", SlotName(1), "", SnapA>>, <<"p1", SlotName(1), "A", SnapA>>,
     <<"p1", SlotName(1), "A", SnapB>>, <<"p1", SlotName(1), "B", SnapB>>,
     <<"p1", SlotName(2), "B", SnapB>>,
     <<"p2", SlotName(1), "A", SnapA>>, <<"p2", SlotName(1), "B", SnapB>>}

\* Each key is sent one snapshot that lacks a section, from every device.
LackingOf(k) ==
    IF k = <<"p1", SlotName(1)>> THEN Without(Snapshot(500, 60), "player")
    ELSE IF k = <<"p1", SlotName(2)>> THEN Without(Snapshot(500, 60), "progress")
    ELSE Without(Without(Snapshot(500, 60), "farm"), "stats")

BadRequests == {<<k[1], k[2], d, LackingOf(k)>> : k \in ClientKeys, d \in Devices}

SaveRequests == GoodRequests \cup BadRequests

\* the slot ids a request may name: the client's slots and the ids of the
\* entries the player has in the table (backups included)
RequestSlots(p) ==
    {k[2] : k \in {kk \in ClientKeys \cup DOMAIN store : kk[1] = p}}

---------------------------------------------------------------------------
(* The state machine: one action per operation of the service *)

Init ==
    /\ store = [k \in {} |-> EmptyDict]
    /\ now = 0
    /\ lastOp = [op |-> "none"]
    /\ changes = 0
    /\ corruptions = 0
    /\ calls = << >>

\* at most MaxChanges steps change the table
Changed(st) ==
    /\ st # store => changes < MaxChanges
    /\ changes' = IF st # store THEN changes + 1 ELSE changes

Save(p, s, gs, d, faults) ==
    /\ LET out == save_game_state(store, now, p, s, gs, d, faults)
       IN /\ Changed(out.store)
          /\ store' = out.store
          /\ lastOp' = [op |-> "save", playerId |-> p, saveSlot |-> s,
                        deviceId |-> d, gameState |-> gs, faults |-> faults,
                        result |-> out.result, backupSlot |-> out.backupSlot,
                        statusCode |-> status_code(out.result)]
    /\ UNCHANGED <<now, corruptions, calls>>

Load(p, s, faults) ==
    /\ lastOp' = [op |-> "load", playerId |-> p, saveSlot |-> s,
                  faults |-> faults,
                  result |-> load_game_state(store, p, s, faults),
                  statusCode |->
                      status_code(load_game_state(store, p, s, faults))]
    /\ UNCHANGED <<store, now, changes, corruptions, calls>>

ListSlots(p, faults) ==
    /\ lastOp' = [op |-> "list", playerId |-> p, faults |-> faults,
                  result |-> get_save_slots(store, p, faults),
                  statusCode |->
                      status_code(list_response(
                          get_save_slots(store, p, faults)))]
    /\ UNCHANGED <<store, now, changes, corruptions, calls>>

DeleteSlot(p, s, faults) ==
    /\ LET out == delete_save_slot(store, p, s, faults)
       IN /\ Changed(out.store)
          /\ store' = out.store
          /\ lastOp' = [op |-> "delete", playerId |-> p, saveSlot |-> s,
                        faults |-> faults, result |-> out.result,
                        statusCode |-> status_code(out.result),
                        repeated |-> /\ lastOp.op = "delete"
                                     /\ lastOp.playerId = p
                                     /\ lastOp.saveSlot = s]
    /\ UNCHANGED <<now, corruptions, calls>>

\* time passes between two requests
Tick ==
    /\ now < MaxClock
    /\ now' = now + 1
    /\ UNCHANGED <<store, lastOp, changes, corruptions, calls>>

\* The stored checksum of an entry is altered from outside the service: it
\* is emptied or replaced by the digest of other content.
WrongChecksum == calculate_checksum(EmptyDict)

Corrupt(p, s, c) ==
    /\ corruptions < MaxCorrupt
    /\ Key(p, s) \in DOMAIN store
    /\ c # store[Key(p, s)].checksum
    /\ store' = [store EXCEPT ![Key(p, s)].checksum = c]
    /\ lastOp' = [op |-> "corrupt", playerId |-> p, saveSlot |-> s]
    /\ corruptions' = corruptions + 1
    /\ UNCHANGED <<now, changes, calls>>

Next ==
    \/ \E r \in SaveRequests : Save(r[1], r[2], r[4], r[3], NoFaults)
    \/ \E p \in Players : \E s \in RequestSlots(p) : Load(p, s, NoFaults)
    \/ \E p \in Players : ListSlots(p, NoFaults)
    \/ \E p \in Players : \E s \in RequestSlots(p) : DeleteSlot(p, s, NoFaults)
    \/ Tick

Spec == Init /\ [][Next]_vars

NextCorrupt ==
    \/ Next
    \/ \E k \in DOMAIN store, c \in {EmptyStr, WrongChecksum} :
          Corrupt(k[1], k[2], c)

SpecCorrupt == Init /\ [][NextCorrupt]_vars

---------------------------------------------------------------------------
(* The validation runs: one key, every kind of snapshot *)

\* money at, next to and far from its bounds with day 60; day at and next
\* to its bounds with money 500
BoundSnapshots ==
    {Snapshot(m, 60) : m \in {MinMoney - 1, MinMoney, MaxMoney, MaxMoney + 1,
                               2 * MaxMoney}}
    \cup {Snapshot(500, d) : d \in {MinDay - 1, MinDay, 60, MaxDay, MaxDay + 1}}

MissingSection == {Without(Snapshot(500, 60), f) : f \in RequiredFields}

Malformed ==
    {[Snapshot(500, 60) EXCEPT !.player = [name |-> "farmer"]],
     [Snapshot(500, 60) EXCEPT !.player = Scalar("farmer")],
     [Snapshot(500, 60) EXCEPT !.farm = [day |-> JsonInt(60)]],
     [Snapshot(500, 60) EXCEPT !.farm = [money |-> JsonInt(500)]],
     [Snapshot(500, 60) EXCEPT !.farm = Scalar("farm")]}

\* device B sends the snapshots whose money is positive and whose day is
\* 60, device A the others
ValidationRequests ==
    {<<"p1", SlotName(1),
       IF "farm" \in DOMAIN gs /\ IsDict(gs.farm) /\ "money" \in DOMAIN gs.farm
          /\ "day" \in DOMAIN gs.farm /\ gs.farm.money.v > 500
          /\ gs.farm.day.v = 60
       THEN "B" ELSE "A",
       gs>> : gs \in BoundSnapshots \cup MissingSection \cup Malformed
                     \cup {SnapNamed}}

NextValidate ==
    \/ \E r \in ValidationRequests : Save(r[1], r[2], r[4], r[3], NoFaults)
    \/ \E s \in RequestSlots("p1") : Load("p1", s, NoFaults)
    \/ ListSlots("p1", NoFaults)
    \/ \E s \in RequestSlots("p1") : DeleteSlot("p1", s, NoFaults)
    \/ Tick

SpecValidate == Init /\ [][NextValidate]_vars

---------------------------------------------------------------------------
(* The tampered runs: the snapshot of an entry is replaced from outside    *)
(* the service by one that save would refuse, with a checksum that fits    *)
(* it, a wrong one or none                                                 *)

\* as the table holds them: day 121, and no farm section
TamperedSnapshots ==
    {GameStateStored(Snapshot(500, MaxDay + 1)),
     Without(GameStateStored(Snapshot(500, 60)), "farm")}

Tamper(p, s, gs, c) ==
    /\ corruptions < MaxCorrupt
    /\ Key(p, s) \in DOMAIN store
    /\ store' = [store EXCEPT ![Key(p, s)].gameState = gs,
                              ![Key(p, s)].checksum = c]
    /\ lastOp' = [op |-> "tamper", playerId |-> p, saveSlot |-> s]
    /\ corruptions' = corruptions + 1
    /\ UNCHANGED <<now, changes, calls>>

TamperRequests ==
    {<<"p1", SlotName(1), "A", SnapA>>, <<"p1", SlotName(1), "B", SnapB>>}

NextTamper ==
    \/ \E r \in TamperRequests : Save(r[1], r[2], r[4], r[3], NoFaults)
    \/ \E s \in RequestSlots("p1") : Load("p1", s, NoFaults)
    \/ \E k \in DOMAIN store, gs \in TamperedSnapshots :
          \E c \in {EmptyStr, WrongChecksum, calculate_checksum(gs)} :
             Tamper(k[1], k[2], gs, c)

SpecTamper == Init /\ [][NextTamper]_vars

---------------------------------------------------------------------------
(* The populated runs: the service starts on a table that earlier saves    *)
(* have filled, with current entries and backups of two players            *)

\* the saves <<time, player, slot, device, snapshot>> that fill the table
PopulatingSaves ==
    <<<<0, "p1", SlotName(1), "A", SnapA>>, <<0, "p1", SlotName(2), "A", SnapA>>,
      <<0, "p2", SlotName(1), "A", SnapA>>, <<1, "p1", SlotName(1), "B", SnapB>>,
      <<1, "p1", SlotName(2), "B", SnapB>>, <<2, "p1", SlotName(1), "A", SnapA>>,
      <<2, "p2", SlotName(1), "B", SnapB>>>>

RECURSIVE Populate(_, _)
Populate(st, saves) ==
    IF saves = << >> THEN st
    ELSE LET r == Head(saves)
         IN Populate(save_game_state(st, r[1], r[2], r[3], r[5], r[4],
                                     NoFaults).store,
                     Tail(saves))

PopulatedStore == Populate([k \in {} |-> EmptyDict], PopulatingSaves)

InitPopulated ==
    /\ store = PopulatedStore
    /\ now = PopulatingSaves[Len(PopulatingSaves)][1]
    /\ lastOp = [op |-> "none"]
    /\ changes = 0
    /\ corruptions = 0
    /\ calls = << >>

\* slot 2 is saved with and without the named snapshot; a save also names
\* the slot id of a backup
PopulatedRequests ==
    {<<"p1", SlotName(1), "B", SnapB>>, <<"p1", SlotName(2), "B", SnapB>>,
     <<"p1", SlotName(2), "A", SnapNamed>>,
     <<"p1", backup_slot(SlotName(1), 0), "B", SnapB>>}

NextPopulated ==
    \/ \E r \in PopulatedRequests : Save(r[1], r[2], r[4], r[3], NoFaults)
    \/ \E p \in Players : \E s \in RequestSlots(p) : Load(p, s, NoFaults)
    \/ \E p \in Players : ListSlots(p, NoFaults)
    \/ \E p \in Players : \E s \in RequestSlots(p) : DeleteSlot(p, s, NoFaults)

SpecPopulated == InitPopulated /\ [][NextPopulated]_vars

---------------------------------------------------------------------------
(* The runs with storage failures: any call of the table may fail *)

\* the calls of the table that an operation makes
SaveCalls == {"get", "backup_put", "put"}

LoadCalls == {"get", "query"}

ListCalls == {"query"}

DeleteCalls == {"delete"}

FaultRequests ==
    {<<"p1", SlotName(1), "A", SnapA>>, <<"p1", SlotName(1), "B", SnapB>>,
     <<"p1", SlotName(1), "B", LackingOf(<<"p1", SlotName(1)>>)>>}

NextFaults ==
    \/ \E r \in FaultRequests, faults \in SUBSET SaveCalls :
          Save(r[1], r[2], r[4], r[3], faults)
    \/ \E p \in Players, faults \in SUBSET LoadCalls :
          \E s \in RequestSlots(p) : Load(p, s, faults)
    \/ \E p \in Players, faults \in SUBSET ListCalls : ListSlots(p, faults)
    \/ \E p \in Players, faults \in SUBSET DeleteCalls :
          \E s \in RequestSlots(p) : DeleteSlot(p, s, faults)
    \/ Tick

SpecFaults == Init /\ [][NextFaults]_vars

---------------------------------------------------------------------------
(* The checksum of a snapshot as the client wrote it.  A dict keeps the    *)
(* order in which its keys were inserted (for a request body, the order of *)
(* the JSON text): it is a sequence of pairs <<key, value>>, a value being *)
(* a number, a scalar or [dict |-> pairs].                                 *)

Dict(pairs) == [dict |-> pairs]

\* sort_keys=False: the keys are written in insertion order
sort_keys_off(pairs) == pairs

\* sort_keys=True: the items of a dict are written in ascending key order
RECURSIVE sort_keys(_)
sort_keys(pairs) ==
    IF Len(pairs) = 0 THEN << >>
    ELSE LET x == Head(pairs)
             rest == sort_keys(Tail(pairs))
         IN SelectSeq(rest, LAMBDA y : StrLess(y[1], x[1]))
            \o <<x>>
            \o SelectSeq(rest, LAMBDA y : ~StrLess(y[1], x[1]))

\* json.dumps(game_state, sort_keys=True, default=decimal_default): the
\* text as the sequence of its items, nested dicts included
RECURSIVE state_str(_)
state_str(pairs) ==
    LET items == sort_keys(pairs)
    IN [i \in 1..Len(items) |->
          <<items[i][1],
            IF "dict" \in DOMAIN items[i][2]
            THEN Dict(state_str(items[i][2].dict))
            ELSE IF "t" \in DOMAIN items[i][2]
            THEN decimal_default(items[i][2])
            ELSE items[i][2]>>]

\* hashlib.md5(state_str.encode()).hexdigest()
checksum_of_body(pairs) == <<state_str(pairs)>>

\* "farm", "player", "season", "money", "day", "name"
KeyFarm == <<102, 97, 114, 109>>

KeyPlayer == <<112, 108, 97, 121, 101, 114>>

KeySeason == <<115, 101, 97, 115, 111, 110>>

KeyMoney == <<109, 111, 110, 101, 121>>

KeyDay == <<100, 97, 121>>

KeyName == <<110, 97, 109, 101>>

\* the orders in which the keys of the content d can have been inserted
Orderings(d) ==
    LET n == Cardinality(DOMAIN d)
        orders == {f \in [1..n -> DOMAIN d] :
                      \A i, j \in 1..n : i # j => f[i] # f[j]}
    IN {[i \in 1..n |-> <<f[i], d[f[i]]>>] : f \in orders}

\* the farm section with money and day as written by the client (int) or
\* as read from the table (Decimal), with and without a name
FarmContents ==
    {[k \in {KeyMoney, KeyDay} |->
         IF k = KeyMoney THEN JsonInt(500) ELSE JsonInt(60)],
     [k \in {KeyMoney, KeyDay} |->
         IF k = KeyMoney THEN Decimal(500) ELSE Decimal(60)],
     [k \in {KeyMoney, KeyDay, KeyName} |->
         IF k = KeyMoney THEN JsonInt(500)
         ELSE IF k = KeyDay THEN JsonInt(60) ELSE Scalar("Green Acres")]}

OrderedFarms == UNION {Orderings(d) : d \in FarmContents}

OrderedBodies ==
    UNION {Orderings([k \in {KeyFarm, KeyPlayer, KeySeason} |->
                         IF k = KeyFarm THEN Dict(farm)
                         ELSE IF k = KeyPlayer THEN Scalar("farmer")
                         ELSE Scalar("Rabi")]) : farm \in OrderedFarms}

\* the checksum of two bodies is computed, that of the first one twice
Checksum(a, b) ==
    /\ lastOp.op = "none"
    /\ lastOp' = [op |-> "checksum", first |-> a, second |-> b,
                  firstSum |-> checksum_of_body(a),
                  secondSum |-> checksum_of_body(b),
                  again |-> checksum_of_body(a)]
    /\ UNCHANGED <<store, now, changes, corruptions, calls>>

NextChecksum == \E a, b \in OrderedBodies : Checksum(a, b)

SpecChecksum == Init /\ [][NextChecksum]_vars

---------------------------------------------------------------------------
(* The concurrent runs: two requests are served at the same time, each     *)
(* call of the table being one step.  The table holds one entry, saved     *)
(* earlier by device A.                                                    *)

Callers == {1, 2}

IdleCall ==
    [op |-> "none", pc |-> "idle", playerId |-> "", saveSlot |-> NoSlot,
     deviceId |-> "", gameState |-> EmptyDict, data |-> EmptyDict,
     existing |-> EmptyDict, readAt |-> -1, backupAt |-> -1,
     result |-> EmptyDict]

PriorStore ==
    save_game_state([k \in {} |-> EmptyDict], 0, "p1", SlotName(1), SnapA, "A",
                    NoFaults).store

InitConcurrent ==
    /\ store = PriorStore
    /\ now = 0
    /\ lastOp = [op |-> "none"]
    /\ changes = 0
    /\ corruptions = 0
    /\ calls = [c \in Callers |-> IdleCall]

SnapC == Snapshot(500, 60)

\* the saves <<player, slot, device, snapshot>> of the concurrent runs
ConcurrentSaves ==
    {<<"p1", SlotName(1), "B", SnapB>>, <<"p1", SlotName(1), "C", SnapC>>,
     <<"p1", SlotName(2), "B", SnapB>>,
     <<"p1", SlotName(1), "C", LackingOf(<<"p1", SlotName(1)>>)>>}

\* the save waits at the read for the conflicting entry to go away
SaveFlowWaits(pc, conflict) ==
    IF pc = "read" THEN (IF conflict THEN "read" ELSE "write")
    ELSE IF pc = "backup" THEN "write"
    ELSE "done"

\* the slot is overwritten first and the backup is written afterwards
SaveFlowBackupLast(pc, conflict) ==
    IF pc = "read" THEN "write"
    ELSE IF pc = "write" THEN (IF conflict THEN "backup" ELSE "done")
    ELSE "done"

\* the place of save_game_state after the call of the table made at pc:
\* after get_item the backup's put_item when the devices conflict, else
\* the primary put_item; after the primary put_item the return
SaveFlow(pc, conflict) ==
    IF pc = "read" THEN (IF conflict THEN "backup" ELSE "write")
    ELSE IF pc = "backup" THEN "write"
    ELSE "done"

\* lines 85-110: validation, checksum, timestamp and save_data
StartSave(c, p, s, gs, d) ==
    /\ calls[c].pc = "idle"
    /\ calls' =
          [calls EXCEPT ![c] =
              IF ~validate_game_state(gs)
              THEN [IdleCall EXCEPT !.op = "save", !.pc = "done",
                       !.playerId = p, !.saveSlot = s, !.deviceId = d,
                       !.gameState = gs, !.result = SaveValidationFailed]
              ELSE [IdleCall EXCEPT !.op = "save", !.pc = "read",
                       !.playerId = p, !.saveSlot = s, !.deviceId = d,
                       !.gameState = gs,
                       !.data = save_data(p, s, gs, d, calculate_checksum(gs),
                                          utcnow_isoformat(now), now)]]
    /\ UNCHANGED <<store, now, lastOp, changes, corruptions>>

\* lines 114-123: get_item and the test of the recorded device
ReadExisting(c) ==
    /\ calls[c].op = "save" /\ calls[c].pc = "read"
    /\ LET call == calls[c]
           existing_response == get_item(store, call.playerId, call.saveSlot)
           conflict ==
               /\ "Item" \in DOMAIN existing_response
               /\ device_conflict(
                      ItemGet(existing_response.Item, "deviceId", ""),
                      call.deviceId)
       IN calls' = [calls EXCEPT ![c].existing = existing_response,
                                 ![c].readAt = changes,
                                 ![c].pc = SaveFlow("read", conflict)]
    /\ UNCHANGED <<store, now, lastOp, changes, corruptions>>

\* lines 124-131: the copy of the entry that was read is put under the
\* backup slot id of the current second
WriteBackup(c) ==
    /\ calls[c].op = "save" /\ calls[c].pc = "backup"
    /\ store' = put_item(store, backup_data(calls[c].existing.Item,
                                            calls[c].saveSlot, now))
    /\ changes' = changes + 1
    /\ calls' = [calls EXCEPT ![c].backupAt = time_time(now),
                              ![c].pc = SaveFlow("backup", TRUE)]
    /\ UNCHANGED <<now, lastOp, corruptions>>

\* lines 136-144: the primary put_item and the result
WriteCurrent(c) ==
    /\ calls[c].op = "save" /\ calls[c].pc = "write"
    /\ store' = put_item(store, calls[c].data)
    /\ changes' = changes + 1
    /\ calls' = [calls EXCEPT
                    ![c].result = SaveSucceeded(calls[c].data.lastSaved,
                                                calls[c].data.checksum,
                                                calls[c].saveSlot),
                    ![c].pc =
                        SaveFlow("write",
                                 /\ "Item" \in DOMAIN calls[c].existing
                                 /\ device_conflict(
                                        ItemGet(calls[c].existing.Item,
                                                "deviceId", ""),
                                        calls[c].deviceId))]
    /\ UNCHANGED <<now, lastOp, corruptions>>

StartLoad(c, p, s) ==
    /\ calls[c].pc = "idle"
    /\ calls' = [calls EXCEPT ![c] = [IdleCall EXCEPT !.op = "load",
                                         !.pc = "get", !.playerId = p,
                                         !.saveSlot = s]]
    /\ UNCHANGED <<store, now, lastOp, changes, corruptions>>

\* lines 157-174 and 191-206: get_item and, unless the checksums differ,
\* the result
LoadGet(c) ==
    /\ calls[c].op = "load" /\ calls[c].pc = "get"
    /\ LET call == calls[c]
           response == get_item(store, call.playerId, call.saveSlot)
           mismatch ==
               /\ "Item" \in DOMAIN response
               /\ checksum_mismatch(
                      ItemGet(response.Item, "checksum", EmptyStr),
                      calculate_checksum(
                          ItemGet(response.Item, "gameState", EmptyDict)))
       IN calls' =
            [calls EXCEPT ![c] =
                IF mismatch
                THEN [call EXCEPT !.existing = response, !.pc = "query"]
                ELSE [call EXCEPT !.existing = response, !.pc = "done",
                         !.result = load_game_state(store, call.playerId,
                                                    call.saveSlot, NoFaults)]]
    /\ UNCHANGED <<store, now, lastOp, changes, corruptions>>

\* lines 176-189: the query of get_backup_slots and the corruption result
LoadQuery(c) ==
    /\ calls[c].op = "load" /\ calls[c].pc = "query"
    /\ LET backups == get_backup_slots(store, calls[c].playerId,
                                       calls[c].saveSlot, NoFaults)
       IN calls' = [calls EXCEPT
                       ![c].result = IF Len(backups) > 0
                                     THEN CorruptionDetected(backups)
                                     ELSE CorruptionNoBackup,
                       ![c].pc = "done"]
    /\ UNCHANGED <<store, now, lastOp, changes, corruptions>>

StartList(c, p) ==
    /\ calls[c].pc = "idle"
    /\ calls' = [calls EXCEPT ![c] = [IdleCall EXCEPT !.op = "list",
                                         !.pc = "query", !.playerId = p]]
    /\ UNCHANGED <<store, now, lastOp, changes, corruptions>>

\* lines 58-76 and 283-287: the query of get_save_slots and the answer
ListQuery(c) ==
    /\ calls[c].op = "list" /\ calls[c].pc = "query"
    /\ calls' = [calls EXCEPT
                    ![c].result = list_response(
                        get_save_slots(store, calls[c].playerId, NoFaults)),
                    ![c].pc = "done"]
    /\ UNCHANGED <<store, now, lastOp, changes, corruptions>>

StartDelete(c, p, s) ==
    /\ calls[c].pc = "idle"
    /\ calls' = [calls EXCEPT ![c] = [IdleCall EXCEPT !.op = "delete",
                                         !.pc = "delete", !.playerId = p,
                                         !.saveSlot = s]]
    /\ UNCHANGED <<store, now, lastOp, changes, corruptions>>

\* lines 242-249: delete_item and the result
DeleteItem(c) ==
    /\ calls[c].op = "delete" /\ calls[c].pc = "delete"
    /\ store' = delete_item(store, calls[c].playerId, calls[c].saveSlot)
    /\ changes' = changes + 1
    /\ calls' = [calls EXCEPT ![c].result = DeleteSucceeded, ![c].pc = "done"]
    /\ UNCHANGED <<now, lastOp, corruptions>>

\* the request of caller c arrives
Start(c) ==
    \/ \E r \in ConcurrentSaves : StartSave(c, r[1], r[2], r[4], r[3])
    \/ StartLoad(c, "p1", SlotName(1))
    \/ StartList(c, "p1")
    \/ StartDelete(c, "p1", SlotName(1))

\* the call of caller c makes its next call of the table
Proceed(c) ==
    \/ ReadExisting(c)
    \/ WriteBackup(c)
    \/ WriteCurrent(c)
    \/ LoadGet(c)
    \/ LoadQuery(c)
    \/ ListQuery(c)
    \/ DeleteItem(c)

NextConcurrent ==
    \/ \E c \in Callers : Start(c)
    \/ \E c \in Callers : Proceed(c)
    \/ Tick

\* each Lambda invocation runs on its own and is not held back
SpecConcurrent ==
    /\ InitConcurrent
    /\ [][NextConcurrent]_vars
    /\ \A c \in Callers : WF_vars(Proceed(c))

---------------------------------------------------------------------------
(* Concurrent requests for different (playerId, saveSlot) keys.  The slot  *)
(* id is whatever the request's saveSlot parameter holds (line 277), the   *)
(* id of an earlier backup included.                                       *)

\* the table before the requests: device A has saved slot1 of both players
IsolatedStore ==
    save_game_state(PriorStore, 0, "p2", SlotName(1), SnapA, "A",
                    NoFaults).store

InitIsolated ==
    /\ store = IsolatedStore
    /\ now = 0
    /\ lastOp = [op |-> "none"]
    /\ changes = 0
    /\ corruptions = 0
    /\ calls = [c \in Callers |-> IdleCall]

\* the saves <<player, slot, device, snapshot>> of these runs
IsolatedSaves ==
    {<<"p1", SlotName(1), "B", SnapB>>,
     <<"p1", backup_slot(SlotName(1), 0), "C", SnapC>>,
     <<"p2", SlotName(1), "B", SnapB>>}

\* the keys <<player, slot>> that the loads and deletes of these runs name
IsolatedKeys ==
    {<<"p1", SlotName(1)>>, <<"p1", backup_slot(SlotName(1), 0)>>,
     <<"p2", SlotName(1)>>}

\* no other request in flight names the key <<p, s>>
KeyFree(c, p, s) ==
    \A o \in Callers \ {c} :
        calls[o].pc = "idle" \/ Key(calls[o].playerId, calls[o].saveSlot)
                                  # Key(p, s)

\* the request of caller c arrives; it names a key of its own
StartIsolated(c) ==
    \/ \E r \in IsolatedSaves :
          KeyFree(c, r[1], r[2]) /\ StartSave(c, r[1], r[2], r[4], r[3])
    \/ \E k \in IsolatedKeys : KeyFree(c, k[1], k[2]) /\ StartLoad(c, k[1], k[2])
    \/ \E k \in IsolatedKeys :
          KeyFree(c, k[1], k[2]) /\ StartDelete(c, k[1], k[2])

\* the call of caller c makes its next call of the table
ProceedIsolated(c) ==
    \/ ReadExisting(c)
    \/ WriteBackup(c)
    \/ WriteCurrent(c)
    \/ LoadGet(c)
    \/ LoadQuery(c)
    \/ DeleteItem(c)

NextIsolated ==
    \/ \E c \in Callers : StartIsolated(c)
    \/ \E c \in Callers : ProceedIsolated(c)
    \/ Tick

SpecIsolated == InitIsolated /\ [][NextIsolated]_vars

---------------------------------------------------------------------------
(* Vocabulary of the claims *)

\* the step is one call of the named operation
OpStep(op) == now' = now /\ lastOp'.op = op

Failed(result, error) ==
    /\ result.success = FALSE
    /\ "error" \in DOMAIN result
    /\ result.error = error

\* a snapshot with its numbers taken by value, whatever their type
ByValue(gs) ==
    [k \in DOMAIN gs |->
        IF k = "farm" /\ IsDict(gs[k])
        THEN [a \in DOMAIN gs[k] |->
                IF a \in {"money", "day"} THEN gs[k][a].v ELSE gs[k][a]]
        ELSE gs[k]]

LacksSection(gs) ==
    \E f \in {"player", "farm", "economics", "season", "weather", "npcs",
              "events", "stats", "progress"} : f \notin DOMAIN gs

\* every section present, player an object with an id, farm an object
\* with money and day
OtherwiseValid(gs) ==
    /\ ~LacksSection(gs)
    /\ IsDict(gs.player) /\ "id" \in DOMAIN gs.player
    /\ IsDict(gs.farm) /\ "money" \in DOMAIN gs.farm /\ "day" \in DOMAIN gs.farm

\* a snapshot that save accepts: every section, money and day in range
ValidSnapshot(gs) ==
    /\ OtherwiseValid(gs)
    /\ gs.farm.money.v >= -1000000 /\ gs.farm.money.v <= 100000000
    /\ gs.farm.day.v >= 1 /\ gs.farm.day.v <= 120

\* the field a of the farm section is there and lies in lo..hi
BoundedField(gs, a, lo, hi) ==
    /\ "farm" \in DOMAIN gs /\ IsDict(gs.farm) /\ a \in DOMAIN gs.farm
    /\ gs.farm[a].v >= lo /\ gs.farm[a].v <= hi

\* the entry is a device-conflict backup of slot s
ConflictBackupOf(item, s) ==
    /\ {"isBackup", "originalSlot", "backupReason"} \subseteq DOMAIN item
    /\ item.isBackup = TRUE
    /\ item.originalSlot = s
    /\ item.backupReason = "device_conflict"

\* the entries of player p that are backups of slot s
BackupKeys(st, p, s) ==
    {k \in DOMAIN st : k[1] = p /\ ConflictBackupOf(st[k], s)}

\* both callers have completed a successful save of the same slot from
\* two devices, and each read the same entry before either wrote
RacingSaves ==
    /\ \A c \in Callers : /\ calls[c].op = "save" /\ calls[c].pc = "done"
                          /\ calls[c].result.success = TRUE
                          /\ "Item" \in DOMAIN calls[c].existing
                          /\ calls[c].readAt = 0
    /\ calls[1].playerId = calls[2].playerId
    /\ calls[1].saveSlot = calls[2].saveSlot
    /\ calls[1].deviceId # calls[2].deviceId
    /\ calls[1].existing = calls[2].existing

\* two backups of the slot hold the snapshot that both saves read
TwoBackupsOfPrior ==
    \E k1, k2 \in BackupKeys(store, calls[1].playerId, calls[1].saveSlot) :
        /\ k1 # k2
        /\ store[k1].gameState = calls[1].existing.Item.gameState
        /\ store[k2].gameState = calls[1].existing.Item.gameState

\* no entry of the table, current or backup, holds the save of caller c
LostSave(c) ==
    ~ \E k \in DOMAIN store :
         /\ ByValue(store[k].gameState) = ByValue(calls[c].gameState)
         /\ store[k].deviceId = calls[c].deviceId

\* a dict as its content: the value of each key, whatever the order
RECURSIVE Content(_)
Content(pairs) ==
    {<<pairs[i][1],
       IF "dict" \in DOMAIN pairs[i][2]
       THEN Dict(Content(pairs[i][2].dict))
       ELSE pairs[i][2]>> : i \in 1..Len(pairs)}

\* the save of caller c has read an entry of another device, and no other
\* caller writes to the table
ConflictSaveAlone(c) ==
    /\ calls[c].op = "save"
    /\ calls[c].pc \in {"backup", "write", "done"}
    /\ "Item" \in DOMAIN calls[c].existing
    /\ calls[c].existing.Item.deviceId # ""
    /\ calls[c].existing.Item.deviceId # calls[c].deviceId
    /\ \A o \in Callers \ {c} : calls[o].op \notin {"save", "delete"}

\* an entry of the player holds the snapshot that caller c read, with its
\* checksum, timestamp and device
PriorKept(c) ==
    \E k \in DOMAIN store :
        /\ k[1] = calls[c].playerId
        /\ k[2] = calls[c].saveSlot \/ ConflictBackupOf(store[k], calls[c].saveSlot)
        /\ store[k].gameState = calls[c].existing.Item.gameState
        /\ store[k].checksum = calls[c].existing.Item.checksum
        /\ store[k].lastSaved = calls[c].existing.Item.lastSaved
        /\ store[k].deviceId = calls[c].existing.Item.deviceId

InFlight(c) == calls[c].pc \notin {"idle", "done"}

\* how far a call has come
Rank(pc) ==
    IF pc = "idle" THEN 0
    ELSE IF pc \in {"read", "get", "delete"} THEN 1
    ELSE IF pc \in {"backup", "query"} THEN 2
    ELSE IF pc = "write" THEN 3
    ELSE 4

---------------------------------------------------------------------------
(* The claims *)

\* C1: a save of a snapshot that lacks one of the nine required sections
\* fails with VALIDATION_FAILED and leaves the whole table, the slot's
\* current entry and every backup included, as it was.
C1_ValidationGate ==
    [][(OpStep("save") /\ LacksSection(lastOp'.gameState))
       => (Failed(lastOp'.result, "VALIDATION_FAILED") /\ store' = store)]_vars

\* a lacking snapshot was refused for a slot that has a current entry and a
\* backup
C1_Witness ==
    /\ lastOp.op = "save"
    /\ LacksSection(lastOp.gameState)
    /\ Failed(lastOp.result, "VALIDATION_FAILED")
    /\ Key(lastOp.playerId, lastOp.saveSlot) \in DOMAIN store
    /\ BackupKeys(store, lastOp.playerId, lastOp.saveSlot) # {}

\* C2: for an otherwise valid snapshot, save fails with VALIDATION_FAILED
\* when farm.money is above 100000000 or below -1000000 or farm.day is
\* below 1 or above 120; otherwise (bounds included) it succeeds and the
\* slot's current entry holds the snapshot.
C2_Bounds ==
    (lastOp.op = "save" /\ OtherwiseValid(lastOp.gameState))
    => LET money == lastOp.gameState.farm.money.v
           day == lastOp.gameState.farm.day.v
           key == Key(lastOp.playerId, lastOp.saveSlot)
       IN IF money > 100000000 \/ money < -1000000 \/ day < 1 \/ day > 120
          THEN Failed(lastOp.result, "VALIDATION_FAILED")
          ELSE /\ lastOp.result.success = TRUE
               /\ key \in DOMAIN store
               /\ ByValue(store[key].gameState) = ByValue(lastOp.gameState)

\* day 121 was refused while the slot holds an accepted snapshot of day 120
C2_Witness ==
    /\ lastOp.op = "save"
    /\ OtherwiseValid(lastOp.gameState)
    /\ lastOp.gameState.farm.day.v = 121
    /\ Failed(lastOp.result, "VALIDATION_FAILED")
    /\ Key("p1", SlotName(1)) \in DOMAIN store
    /\ store[Key("p1", SlotName(1))].gameState.farm.day.v = 120

\* C3: every entry of the table, current or backup, holds a snapshot with
\* all nine required sections, farm.money within [-1000000, 100000000] and
\* a day within 1..120.
C3_StoredSnapshotsValid ==
    \A k \in DOMAIN store :
        LET item == store[k]
        IN /\ ~LacksSection(item.gameState)
           /\ item.gameState.farm.money.v >= -1000000
           /\ item.gameState.farm.money.v <= 100000000
           /\ item.gameState.farm.day.v \in 1..120
           /\ item.day.v \in 1..120
           /\ item.money.v >= -1000000 /\ item.money.v <= 100000000

\* the table holds a current entry and a backup, at the two money bounds
C3_Witness ==
    /\ \E k \in DOMAIN store : "isBackup" \in DOMAIN store[k]
                               /\ store[k].money.v = -1000000
    /\ \E k \in DOMAIN store : "isBackup" \notin DOMAIN store[k]
                               /\ store[k].money.v = 100000000

\* C4: a save of slot s of player p from a non-empty device A with snapshot
\* SA, followed with no operation in between by a save from another device
\* B with snapshot SB, leaves a device_conflict backup of s that holds SA,
\* and the current entry of (p, s) holds SB with device id B.
C4_DeviceConflictBackup ==
    [][(/\ lastOp.op = "save" /\ lastOp.result.success = TRUE
        /\ lastOp.deviceId # ""
        /\ OpStep("save") /\ lastOp'.result.success = TRUE
        /\ lastOp'.playerId = lastOp.playerId
        /\ lastOp'.saveSlot = lastOp.saveSlot
        /\ lastOp'.deviceId # lastOp.deviceId)
       => LET key == Key(lastOp'.playerId, lastOp'.saveSlot)
          IN /\ \E k \in BackupKeys(store', lastOp'.playerId, lastOp'.saveSlot) :
                   /\ k # key
                   /\ ByValue(store'[k].gameState) = ByValue(lastOp.gameState)
             /\ key \in DOMAIN store'
             /\ ByValue(store'[key].gameState) = ByValue(lastOp'.gameState)
             /\ store'[key].deviceId = lastOp'.deviceId]_vars

\* device B has just saved SnapB over device A's SnapA, which is now a backup
C4_Witness ==
    /\ lastOp.op = "save" /\ lastOp.result.success = TRUE
    /\ lastOp.deviceId = "B"
    /\ store[Key(lastOp.playerId, lastOp.saveSlot)].deviceId = "B"
    /\ ByValue(store[Key(lastOp.playerId, lastOp.saveSlot)].gameState)
         = ByValue(SnapB)
    /\ \E k \in BackupKeys(store, lastOp.playerId, lastOp.saveSlot) :
          /\ store[k].deviceId = "A"
          /\ ByValue(store[k].gameState) = ByValue(SnapA)

\* C5: a successful save to (p, s) from device d writes a backup entry if
\* and only if (p, s) has an entry whose recorded device id is non-empty
\* and differs from d; when it writes none, no entry but (p, s) changes.
C5_BackupIffConflict ==
    [][(OpStep("save") /\ lastOp'.result.success = TRUE)
       => LET p == lastOp'.playerId
              s == lastOp'.saveSlot
              key == Key(p, s)
              conflict == /\ key \in DOMAIN store
                          /\ store[key].deviceId # ""
                          /\ store[key].deviceId # lastOp'.deviceId
          IN /\ (lastOp'.backupSlot # NoSlot) <=> conflict
             /\ conflict
                  => /\ Key(p, lastOp'.backupSlot) \in BackupKeys(store', p, s)
                     /\ Key(p, lastOp'.backupSlot) # key
             /\ ~conflict
                  => /\ DOMAIN store' = DOMAIN store \cup {key}
                     /\ \A k \in DOMAIN store \ {key} : store'[k] = store[k]]_vars

\* device B has saved over an entry that recorded no device id: after two
\* changes of the table the slot's entry is the only one
C5_Witness ==
    /\ lastOp.op = "save" /\ lastOp.result.success = TRUE
    /\ lastOp.deviceId = "B"
    /\ lastOp.backupSlot = NoSlot
    /\ changes = 2
    /\ DOMAIN store = {Key(lastOp.playerId, lastOp.saveSlot)}

\* C6: a successful save(p, s, S, d) followed at once by load(p, s) returns
\* success with a snapshot equal to S, device id d, the timestamp save
\* returned and a recomputed checksum equal to the one save returned.
C6_RoundTrip ==
    [][(/\ lastOp.op = "save" /\ lastOp.result.success = TRUE
        /\ OpStep("load")
        /\ lastOp'.playerId = lastOp.playerId
        /\ lastOp'.saveSlot = lastOp.saveSlot)
       => /\ lastOp'.result.success = TRUE
          /\ ByValue(lastOp'.result.gameState) = ByValue(lastOp.gameState)
          /\ lastOp'.result.deviceId = lastOp.deviceId
          /\ lastOp'.result.lastSaved = lastOp.result.timestamp
          /\ lastOp'.result.checksum = lastOp.result.checksum]_vars

\* C7: a load of a current entry whose stored checksum differs from the
\* checksum recomputed over its stored snapshot, an emptied checksum
\* included, never succeeds: it fails with CORRUPTION_DETECTED when the
\* player has a backup of that slot and with CORRUPTION_NO_BACKUP otherwise.
C7_MismatchNeverLoads ==
    LET key == Key(lastOp.playerId, lastOp.saveSlot)
    IN (/\ lastOp.op = "load"
        /\ key \in DOMAIN store
        /\ "isBackup" \notin DOMAIN store[key]
        /\ store[key].checksum # calculate_checksum(store[key].gameState))
       => IF \E k \in DOMAIN store :
                /\ k[1] = lastOp.playerId
                /\ "originalSlot" \in DOMAIN store[k]
                /\ store[k].originalSlot = lastOp.saveSlot
          THEN Failed(lastOp.result, "CORRUPTION_DETECTED")
          ELSE Failed(lastOp.result, "CORRUPTION_NO_BACKUP")

\* C8: load(p, s) fails with NOT_FOUND exactly when the table has no entry
\* for (p, s).
C8_NotFoundIffAbsent ==
    lastOp.op = "load"
    => (Failed(lastOp.result, "NOT_FOUND")
        <=> Key(lastOp.playerId, lastOp.saveSlot) \notin DOMAIN store)

\* a slot was saved and deleted, the table is empty again, and the load of
\* a slot reports NOT_FOUND
C8_Witness ==
    /\ lastOp.op = "load"
    /\ Failed(lastOp.result, "NOT_FOUND")
    /\ changes = 2
    /\ DOMAIN store = {}

\* C9: listSlots(p) returns one summary per current, non-backup entry of
\* player p and none for a backup, in ascending order of slot id; for a
\* player with no entry it returns the empty sequence.
C9_ListsCurrentSlotsOnly ==
    lastOp.op = "list"
    => LET current == {k \in DOMAIN store :
                          k[1] = lastOp.playerId /\ "isBackup" \notin DOMAIN store[k]}
           listed == lastOp.result
       IN /\ Len(listed) = Cardinality(current)
          /\ {listed[i].saveSlot : i \in 1..Len(listed)} = {k[2] : k \in current}
          /\ \A i, j \in 1..Len(listed) :
                i < j => StrLess(listed[i].saveSlot, listed[j].saveSlot)

\* C10: deleteSlot(p, s) succeeds whether or not (p, s) has an entry and
\* leaves none; a second deleteSlot(p, s) in a row succeeds too and leaves
\* the table as the first one left it.
C10_DeleteIdempotent ==
    [][OpStep("delete")
       => /\ lastOp'.result.success = TRUE
          /\ Key(lastOp'.playerId, lastOp'.saveSlot) \notin DOMAIN store'
          /\ lastOp'.repeated => store' = store]_vars

\* a saved slot was deleted and then deleted again, with success
C10_Witness ==
    /\ lastOp.op = "delete"
    /\ lastOp.repeated
    /\ lastOp.result.success = TRUE
    /\ changes = 2

\* C11: deleteSlot(p, s) removes the entry keyed (p, s) and nothing else:
\* the backups of s, the other slots of p and the entries of the other
\* players are in the table afterwards exactly as they were before.
C11_DeleteFrame ==
    [][OpStep("delete")
       => LET key == Key(lastOp'.playerId, lastOp'.saveSlot)
          IN /\ DOMAIN store' = DOMAIN store \ {key}
             /\ \A k \in DOMAIN store' : store'[k] = store[k]]_vars

\* slot1 of player p1 was deleted; its two backups, slot2 of p1 and the
\* entry of player p2 are still in the table
C11_Witness ==
    /\ lastOp.op = "delete" /\ lastOp.result.success = TRUE
    /\ lastOp.playerId = "p1" /\ lastOp.saveSlot = SlotName(1)
    /\ changes = 1
    /\ Key("p1", SlotName(1)) \notin DOMAIN store
    /\ Cardinality(BackupKeys(store, "p1", SlotName(1))) = 2
    /\ Key("p1", SlotName(2)) \in DOMAIN store
    /\ Key("p2", SlotName(1)) \in DOMAIN store

\* C12: when the read of the existing entry or the write of the backup
\* fails during a save of a valid snapshot and the primary write does not
\* fail, save returns success and the current entry of the slot holds the
\* incoming snapshot with the incoming device id.
C12_BackupFailureSwallowed ==
    (/\ lastOp.op = "save"
     /\ ValidSnapshot(lastOp.gameState)
     /\ lastOp.faults \cap {"get", "backup_put"} # {}
     /\ "put" \notin lastOp.faults)
    => LET key == Key(lastOp.playerId, lastOp.saveSlot)
       IN /\ lastOp.result.success = TRUE
          /\ key \in DOMAIN store
          /\ ByValue(store[key].gameState) = ByValue(lastOp.gameState)
          /\ store[key].deviceId = lastOp.deviceId

\* device B saved over device A's entry while the write of the backup
\* failed: the save succeeded, the slot holds B's snapshot and there is no
\* backup
C12_Witness ==
    /\ lastOp.op = "save" /\ lastOp.deviceId = "B"
    /\ lastOp.faults = {"backup_put"}
    /\ lastOp.result.success = TRUE
    /\ changes = 2
    /\ DOMAIN store = {Key("p1", SlotName(1))}
    /\ ByValue(store[Key("p1", SlotName(1))].gameState) = ByValue(SnapB)

\* C13: every failing result of save, load and deleteSlot carries an error
\* code: SAVE_FAILED when the primary write of save fails, LOAD_FAILED when
\* the read of load fails, DELETE_FAILED when the delete fails.
C13_TypedErrors ==
    (lastOp.op \in {"save", "load", "delete"} /\ lastOp.result.success = FALSE)
    => /\ "error" \in DOMAIN lastOp.result
       /\ (lastOp.op = "save" /\ ValidSnapshot(lastOp.gameState)
            /\ "put" \in lastOp.faults)
             => lastOp.result.error = "SAVE_FAILED"
       /\ (lastOp.op = "load" /\ "get" \in lastOp.faults)
             => lastOp.result.error = "LOAD_FAILED"
       /\ (lastOp.op = "delete" /\ "delete" \in lastOp.faults)
             => lastOp.result.error = "DELETE_FAILED"

\* C14: the HTTP status of the answer is 200 when the operation succeeds,
\* 400 when the result is VALIDATION_FAILED or NOT_FOUND, and 500 when the
\* storage fails during save, load or delete.
C14_StatusByOutcome ==
    lastOp.op \in {"save", "load", "delete"}
    => /\ lastOp.result.success = TRUE => lastOp.statusCode = 200
       /\ (Failed(lastOp.result, "VALIDATION_FAILED")
            \/ Failed(lastOp.result, "NOT_FOUND")) => lastOp.statusCode = 400
       /\ (/\ lastOp.result.success = FALSE
           /\ \/ lastOp.op = "save" /\ "put" \in lastOp.faults
                 /\ ValidSnapshot(lastOp.gameState)
              \/ lastOp.op = "load" /\ "get" \in lastOp.faults
              \/ lastOp.op = "delete" /\ "delete" \in lastOp.faults)
            => lastOp.statusCode = 500

\* C15: when the query of listSlots fails the caller receives a failure,
\* never a successful answer with the empty list of slots.
C15_ListFailureVisible ==
    (lastOp.op = "list" /\ "query" \in lastOp.faults)
    => ~(lastOp.statusCode = 200 /\ lastOp.result = << >>)

\* C16: when two concurrent saves of one slot from two devices have both
\* read the same prior entry before either wrote, the table ends with two
\* backups of the prior snapshot or with one save's snapshot lost (in no
\* entry, current or backup); the two backups are there whenever the two
\* saves wrote their backups in different seconds.
C16_RaceOutcome ==
    RacingSaves
    => /\ TwoBackupsOfPrior \/ \E c \in Callers : LostSave(c)
       /\ (/\ calls[1].backupAt >= 0 /\ calls[2].backupAt >= 0
           /\ calls[1].backupAt # calls[2].backupAt) => TwoBackupsOfPrior

\* the interleaving is reached: both saves read device A's entry first, the
\* table then holds two backups of A's snapshot and one save is lost
C16_Witness ==
    /\ RacingSaves
    /\ TwoBackupsOfPrior
    /\ \E c \in Callers : LostSave(c)
    /\ calls[1].existing.Item.deviceId = "A"

\* C17: under any interleaving of concurrent save, load, listSlots and
\* deleteSlot calls, the next step of a call in flight is always enabled,
\* no call goes back to an earlier step (so a call that has left idle can
\* only be in flight or done), a call that is done has a result, and with
\* its steps scheduled fairly no call stays in flight for ever.
C17_NoWaiting ==
    /\ [](\A c \in Callers : InFlight(c) => ENABLED Proceed(c))
    /\ [][\A c \in Callers :
            calls'[c].pc # calls[c].pc
            => Rank(calls'[c].pc) > Rank(calls[c].pc)]_vars
    /\ [](\A c \in Callers :
            calls[c].pc = "done" => "success" \in DOMAIN calls[c].result)
    /\ \A c \in Callers : []<>(~InFlight(c))

\* a save and a delete of the same slot were interleaved and both have
\* completed: the save read the entry before the delete removed it and
\* wrote the slot after it
C17_Witness ==
    /\ calls[1].op = "save" /\ calls[1].pc = "done"
    /\ calls[1].result.success = TRUE
    /\ "Item" \in DOMAIN calls[1].existing
    /\ calls[2].op = "delete" /\ calls[2].pc = "done"
    /\ calls[2].result.success = TRUE
    /\ calls[2].saveSlot = calls[1].saveSlot
    /\ Key(calls[1].playerId, calls[1].saveSlot) \in DOMAIN store
    /\ BackupKeys(store, calls[1].playerId, calls[1].saveSlot) # {}

\* C18: two snapshots with the same keys and values have the same
\* checksum whatever the order in which their keys were inserted, at the
\* top level and inside a section, and the checksum of one snapshot
\* computed twice is the same.
C18_ChecksumOrderFree ==
    lastOp.op = "checksum"
    => /\ Content(lastOp.first) = Content(lastOp.second)
            => lastOp.firstSum = lastOp.secondSum
       /\ lastOp.again = lastOp.firstSum

\* two bodies of the same content whose keys come in another order, at
\* the top level and in the farm section, have the same checksum
C18_Witness ==
    /\ lastOp.op = "checksum"
    /\ Content(lastOp.first) = Content(lastOp.second)
    /\ lastOp.first[1][1] # lastOp.second[1][1]
    /\ \E i, j \in 1..3 :
          /\ lastOp.first[i][1] = KeyFarm /\ lastOp.second[j][1] = KeyFarm
          /\ lastOp.first[i][2].dict[1][1] # lastOp.second[j][2].dict[1][1]
    /\ lastOp.firstSum = lastOp.secondSum

\* C19: after a successful save(p, s, S, d) the table has one entry for
\* (p, s); its snapshot is S, with no section or farm field of the snapshot
\* it replaces, its device id is d, it is no backup, and its checksum and
\* lastSaved are the checksum and timestamp of the save result, the
\* checksum being that of S.
C19_SaveSupersedes ==
    (lastOp.op = "save" /\ lastOp.result.success = TRUE)
    => LET key == Key(lastOp.playerId, lastOp.saveSlot)
       IN /\ Cardinality({k \in DOMAIN store : k = key}) = 1
          /\ ByValue(store[key].gameState) = ByValue(lastOp.gameState)
          /\ store[key].deviceId = lastOp.deviceId
          /\ store[key].checksum = lastOp.result.checksum
          /\ store[key].lastSaved = lastOp.result.timestamp
          /\ lastOp.result.checksum = calculate_checksum(lastOp.gameState)
          /\ DOMAIN store[key] \cap {"isBackup", "originalSlot", "backupReason"}
               = {}
          /\ store[key].farmName
               = IF "name" \in DOMAIN lastOp.gameState.farm
                 THEN lastOp.gameState.farm.name
                 ELSE FarmPrefix \o lastOp.saveSlot

\* device B has saved SnapB over the named snapshot of device A: the
\* named snapshot is now a backup and the slot holds no part of it
C19_Witness ==
    /\ lastOp.op = "save" /\ lastOp.result.success = TRUE
    /\ lastOp.deviceId = "B" /\ lastOp.saveSlot = SlotName(2)
    /\ changes = 2
    /\ \E k \in BackupKeys(store, "p1", SlotName(2)) :
          "inventory" \in DOMAIN store[k].gameState
    /\ "inventory" \notin DOMAIN store[Key("p1", SlotName(2))].gameState
    /\ "name" \notin DOMAIN store[Key("p1", SlotName(2))].gameState.farm

\* C20: when load reports CORRUPTION_DETECTED for slot s of player p, the
\* attached list holds one summary (slot id, timestamp, reason, device) for
\* each entry of p with isBackup = true and originalSlot = s and no other,
\* the most recent timestamp first.
C20_BackupListExact ==
    (lastOp.op = "load" /\ Failed(lastOp.result, "CORRUPTION_DETECTED"))
    => LET expected ==
               {k \in DOMAIN store :
                   /\ k[1] = lastOp.playerId
                   /\ "isBackup" \in DOMAIN store[k]
                   /\ store[k].isBackup = TRUE
                   /\ "originalSlot" \in DOMAIN store[k]
                   /\ store[k].originalSlot = lastOp.saveSlot}
           listed == lastOp.result.backups
       IN /\ Len(listed) = Cardinality(expected)
          /\ Len(listed) > 0
          /\ \A k \in expected :
                \E i \in 1..Len(listed) :
                   listed[i] = [saveSlot |-> k[2],
                                lastSaved |-> store[k].lastSaved,
                                backupReason |-> store[k].backupReason,
                                deviceId |-> store[k].deviceId]
          /\ \A i, j \in 1..Len(listed) :
                i < j => ~TsLess(listed[i].lastSaved, listed[j].lastSaved)

\* the load of slot1 of player p1 reported its two backups, the later one
\* first, while the table also holds a backup of slot2 and a backup of
\* slot1 of player p2
C20_Witness ==
    /\ lastOp.op = "load" /\ Failed(lastOp.result, "CORRUPTION_DETECTED")
    /\ lastOp.playerId = "p1" /\ lastOp.saveSlot = SlotName(1)
    /\ Len(lastOp.result.backups) = 2
    /\ TsLess(lastOp.result.backups[2].lastSaved,
              lastOp.result.backups[1].lastSaved)
    /\ BackupKeys(store, "p1", SlotName(2)) # {}
    /\ BackupKeys(store, "p2", SlotName(1)) # {}

\* C21 as claimed: a snapshot is accepted if and only if all nine sections
\* are present and farm.money and farm.day are within range, whatever else
\* the sections hold (whether player carries an id, for example).
C21_SectionsAndBoundsOnly ==
    lastOp.op = "save"
    => (lastOp.result.success = TRUE
        <=> /\ ~LacksSection(lastOp.gameState)
            /\ BoundedField(lastOp.gameState, "money", -1000000, 100000000)
            /\ BoundedField(lastOp.gameState, "day", 1, 120))

\* C21 as amended: a snapshot is accepted if and only if all nine sections
\* are present, player is an object that carries an id, farm is an object
\* that carries money and day, and both are within range; no other content
\* influences acceptance.
C21_SectionsPlayerIdAndBounds ==
    lastOp.op = "save"
    => (lastOp.result.success = TRUE
        <=> /\ ~LacksSection(lastOp.gameState)
            /\ IsDict(lastOp.gameState.player)
            /\ "id" \in DOMAIN lastOp.gameState.player
            /\ BoundedField(lastOp.gameState, "money", -1000000, 100000000)
            /\ BoundedField(lastOp.gameState, "day", 1, 120))

\* a snapshot with all nine sections and both fields in range, whose
\* player section carries no id, was refused
C21_Witness ==
    /\ lastOp.op = "save"
    /\ ~LacksSection(lastOp.gameState)
    /\ IsDict(lastOp.gameState.player)
    /\ "id" \notin DOMAIN lastOp.gameState.player
    /\ BoundedField(lastOp.gameState, "money", -1000000, 100000000)
    /\ BoundedField(lastOp.gameState, "day", 1, 120)
    /\ Failed(lastOp.result, "VALIDATION_FAILED")

\* C22: from the read of a device-conflict save on, with no other writer,
\* the prior snapshot is in the table in every state, as the current entry
\* or as a backup of the slot: before the backup is written, between the
\* two writes and after the slot is overwritten.
C22_BackupBeforeOverwrite ==
    \A c \in Callers : ConflictSaveAlone(c) => PriorKept(c)

\* between the two writes of a device-conflict save: the backup is written
\* and the slot still holds the prior entry
C22_Witness ==
    \E c \in Callers :
        /\ ConflictSaveAlone(c)
        /\ calls[c].pc = "write"
        /\ calls[c].backupAt >= 0
        /\ store[Key(calls[c].playerId, calls[c].saveSlot)]
             = calls[c].existing.Item
        /\ BackupKeys(store, calls[c].playerId, calls[c].saveSlot) # {}

\* C23: a successful device-conflict save writes its backup under a key
\* that no entry of the table has, so the slot has one backup more than
\* before and every earlier backup is as it was, also when an earlier
\* conflicting save of the slot happened in the same second.
C23_BackupKeyFresh ==
    [][(/\ OpStep("save") /\ lastOp'.result.success = TRUE
        /\ Key(lastOp'.playerId, lastOp'.saveSlot) \in DOMAIN store
        /\ store[Key(lastOp'.playerId, lastOp'.saveSlot)].deviceId # ""
        /\ store[Key(lastOp'.playerId, lastOp'.saveSlot)].deviceId
             # lastOp'.deviceId)
       => LET p == lastOp'.playerId
              s == lastOp'.saveSlot
          IN /\ lastOp'.backupSlot # NoSlot
             /\ Key(p, lastOp'.backupSlot) \notin DOMAIN store
             /\ Cardinality(BackupKeys(store', p, s))
                  = Cardinality(BackupKeys(store, p, s)) + 1
             /\ \A k \in BackupKeys(store, p, s) :
                   k \in DOMAIN store' /\ store'[k] = store[k]]_vars

\* C24: when load reads an entry whose snapshot lacks a section or has a
\* bounded field out of range, it returns VALIDATION_FAILED if the stored
\* checksum equals the recomputed one, and CORRUPTION_DETECTED or
\* CORRUPTION_NO_BACKUP, never VALIDATION_FAILED, if it differs.
C24_IntegrityBeforeStructure ==
    LET key == Key(lastOp.playerId, lastOp.saveSlot)
    IN (/\ lastOp.op = "load"
        /\ key \in DOMAIN store
        /\ \/ LacksSection(store[key].gameState)
           \/ ~BoundedField(store[key].gameState, "money", -1000000, 100000000)
           \/ ~BoundedField(store[key].gameState, "day", 1, 120))
       => IF store[key].checksum = calculate_checksum(store[key].gameState)
          THEN Failed(lastOp.result, "VALIDATION_FAILED")
          ELSE \/ Failed(lastOp.result, "CORRUPTION_DETECTED")
               \/ Failed(lastOp.result, "CORRUPTION_NO_BACKUP")

\* C25: a save of a valid snapshot to a slot whose entry has a stored
\* checksum that differs from the recomputed one succeeds, and the backup
\* it makes carries the checksum of the entry it copies; a load of the slot
\* right after such a save succeeds.
C25_SaveIgnoresCorruption ==
    /\ [][(/\ OpStep("save") /\ ValidSnapshot(lastOp'.gameState)
            /\ Key(lastOp'.playerId, lastOp'.saveSlot) \in DOMAIN store
            /\ store[Key(lastOp'.playerId, lastOp'.saveSlot)].checksum
                 # calculate_checksum(
                       store[Key(lastOp'.playerId, lastOp'.saveSlot)].gameState))
           => /\ lastOp'.result.success = TRUE
              /\ lastOp'.backupSlot # NoSlot
                   => store'[Key(lastOp'.playerId, lastOp'.backupSlot)].checksum
                        = store[Key(lastOp'.playerId, lastOp'.saveSlot)].checksum]_vars
    /\ [][(/\ lastOp.op = "save" /\ lastOp.result.success = TRUE
            /\ lastOp.backupSlot # NoSlot
            /\ store[Key(lastOp.playerId, lastOp.backupSlot)].checksum
                 # calculate_checksum(
                       store[Key(lastOp.playerId, lastOp.backupSlot)].gameState)
            /\ OpStep("load")
            /\ lastOp'.playerId = lastOp.playerId
            /\ lastOp'.saveSlot = lastOp.saveSlot)
           => lastOp'.result.success = TRUE]_vars

\* the entry is a current one, not a backup
CurrentEntry(item) == ~ItemGet(item, "isBackup", FALSE)

\* what the call c alone makes of the table of InitIsolated: the entry
\* under its key and its result
AloneOutcome(c) ==
    LET call == calls[c]
        k == Key(call.playerId, call.saveSlot)
    IN CASE call.op = "save" ->
              /\ call.result.success = TRUE
              /\ k \in DOMAIN store
              /\ store[k] = put_item(IsolatedStore, call.data)[k]
         [] call.op = "delete" ->
              /\ call.result = DeleteSucceeded
              /\ k \notin DOMAIN store
         [] OTHER ->
              /\ call.result = load_game_state(IsolatedStore, call.playerId,
                                               call.saveSlot, NoFaults)
              /\ (k \in DOMAIN store) = (k \in DOMAIN IsolatedStore)
              /\ k \in DOMAIN store => store[k] = IsolatedStore[k]

\* C26: requests for different (playerId, saveSlot) keys do not affect one
\* another: a step of a save to (p, s) changes no current entry of another
\* slot and no entry of another player, and when both requests are done
\* each has the result and has left the entry that it gives when run alone.
C26_KeysIsolated ==
    /\ [][\A c \in Callers :
            (calls'[c] # calls[c] /\ calls[c].op = "save")
              => \A k \in DOMAIN store :
                    (\/ k[1] # calls[c].playerId
                     \/ k[2] # calls[c].saveSlot /\ CurrentEntry(store[k]))
                      => k \in DOMAIN store' /\ store'[k] = store[k]]_vars
    /\ []((\A c \in Callers : calls[c].pc = "done")
            => \A c \in Callers : AloneOutcome(c))

\* the attributes in which a backup may differ from the entry it copies
BackupMarks == {"saveSlot", "isBackup", "originalSlot", "backupReason"}

\* C27: the backup written by a device-conflict save has every attribute of
\* the prior entry unchanged apart from saveSlot, isBackup, originalSlot and
\* backupReason, and a load of a backup's slot id succeeds with the
\* snapshot and the device id that the backup holds.
C27_BackupLoadsAsPrior ==
    /\ [][(OpStep("save") /\ lastOp'.backupSlot # NoSlot)
           => LET prior == store[Key(lastOp'.playerId, lastOp'.saveSlot)]
                  backup == store'[Key(lastOp'.playerId, lastOp'.backupSlot)]
              IN /\ DOMAIN backup = DOMAIN prior \cup BackupMarks
                 /\ \A a \in DOMAIN prior \ BackupMarks :
                       backup[a] = prior[a]]_vars
    /\ [][(/\ OpStep("load")
            /\ Key(lastOp'.playerId, lastOp'.saveSlot) \in DOMAIN store
            /\ \E s \in RequestSlots(lastOp'.playerId) :
                  ConflictBackupOf(
                      store[Key(lastOp'.playerId, lastOp'.saveSlot)], s))
           => LET backup == store[Key(lastOp'.playerId, lastOp'.saveSlot)]
              IN /\ lastOp'.result.success = TRUE
                 /\ lastOp'.result.gameState = backup.gameState
                 /\ lastOp'.result.deviceId = backup.deviceId]_vars

\* C28: when a save writes its device-conflict backup and the primary write
\* then fails, the result is SAVE_FAILED, the slot's current entry is the
\* one it was, and the backup written by the failed save is in the table,
\* holding the snapshot of that current entry.
C28_FailedSaveLeavesBackup ==
    [][(/\ OpStep("save") /\ lastOp'.backupSlot # NoSlot
        /\ "put" \in lastOp'.faults)
       => LET k == Key(lastOp'.playerId, lastOp'.saveSlot)
              b == Key(lastOp'.playerId, lastOp'.backupSlot)
          IN /\ Failed(lastOp'.result, "SAVE_FAILED")
             /\ k \in DOMAIN store' /\ store'[k] = store[k]
             /\ b \in DOMAIN store'
             /\ ConflictBackupOf(store'[b], lastOp'.saveSlot)
             /\ store'[b].gameState = store[k].gameState
             /\ store'[b].deviceId = store[k].deviceId]_vars

\* a save has failed at the primary write after it wrote a backup that the
\* table did not hold before
C28_Witness ==
    /\ lastOp.op = "save" /\ lastOp.faults = {"put"}
    /\ lastOp.backupSlot # NoSlot
    /\ Failed(lastOp.result, "SAVE_FAILED")
    /\ Cardinality(DOMAIN store) = 2
    /\ Key(lastOp.playerId, lastOp.backupSlot) \in DOMAIN store
    /\ store[Key(lastOp.playerId, lastOp.saveSlot)].deviceId # lastOp.deviceId

\* the day and the money of the entry are those of the snapshot it holds
SummaryOfSnapshot(item) ==
    /\ item.day = item.gameState.farm.day
    /\ item.money = item.gameState.farm.money

\* C29: in every table that saves and deletes produce, each entry, current
\* or backup, has the day and the money of the snapshot it holds and the
\* checksum of that snapshot, and every slot that the listing reports is
\* reported with the checksum that a load of it returns.
C29_SummaryAgrees ==
    /\ \A k \in DOMAIN store :
          /\ SummaryOfSnapshot(store[k])
          /\ store[k].checksum = calculate_checksum(store[k].gameState)
    /\ \A p \in Players :
          LET slots == get_save_slots(store, p, NoFaults)
          IN \A i \in 1..Len(slots) :
                LET loaded == load_game_state(store, p, slots[i].saveSlot,
                                              NoFaults)
                IN /\ loaded.success = TRUE
                   /\ loaded.checksum = slots[i].checksum
                   /\ loaded.gameState.farm.day = slots[i].day
                   /\ loaded.gameState.farm.money = slots[i].money

\* the load just made read an entry whose stored checksum differs from the
\* recomputed one, and its query of the backups failed
MismatchWithFailedQuery ==
    /\ lastOp.op = "load" /\ lastOp.faults = {"query"}
    /\ Key(lastOp.playerId, lastOp.saveSlot) \in DOMAIN store
    /\ checksum_mismatch(
           store[Key(lastOp.playerId, lastOp.saveSlot)].checksum,
           calculate_checksum(
               store[Key(lastOp.playerId, lastOp.saveSlot)].gameState))

\* C30: a load that finds a checksum mismatch and whose query of the
\* backups fails returns CORRUPTION_NO_BACKUP, whether or not the table
\* holds backups of the slot.
C30_FailedBackupQuerySwallowed ==
    MismatchWithFailedQuery => lastOp.result = CorruptionNoBackup

\* such a load was made while the table held a backup of the slot
C30_Witness ==
    /\ MismatchWithFailedQuery
    /\ BackupKeys(store, lastOp.playerId, lastOp.saveSlot) # {}
    /\ Failed(lastOp.result, "CORRUPTION_NO_BACKUP")

====
